---- MODULE Spec2Model ----
(***************************************************************************)
(* Lead-generation pipeline of services/geminiService.ts: parseJsonResponse,*)
(* generateContentWithRetry, validateLead and generateLeads, as a state     *)
(* machine whose steps are the event-loop turns of one generateLeads run    *)
(* (a model response arriving, a model call failing, a timer firing).       *)
(***************************************************************************)
EXTENDS Integers, Sequences, FiniteSets, TLC

\* ------------------------------------------------------------------ bounds
\* Largest number of company names a discovery response carries.
MaxCompanies == 2
\* Largest number of generation runs of one App session.
MaxRuns == 2
\* The longest text given to parseJsonResponse on its own, in characters, and
\* the longest content of each block of a text made of two fenced blocks.
MaxTextLen == 5
MaxBlockLen == 2

\* ------------------------------------------------------- program constants
DefaultRetries == 3
DefaultDelay == 1000
InitialProgress == 5
FoundProgress == 10
ResearchBand == 75
VerifyProgress == 90
FinalProgress == 100

\* ------------------------------------------------------------- JSON values
\* Values are tagged records; Get reads a property the way JavaScript does
\* (a missing property reads as undefined).
JUndefined == [type |-> "undefined"]
JNull == [type |-> "null"]
JEmptyObject == [type |-> "object"]
JString(s) == [type |-> "string", str |-> s]
JBool(b) == [type |-> "boolean", bool |-> b]
JArray(items) == [type |-> "array", items |-> items]

Get(obj, field) == IF field \in DOMAIN obj THEN obj[field] ELSE JUndefined

\* JavaScript truthiness of a value.
Truthy(v) ==
    CASE v.type = "undefined" -> FALSE
      [] v.type = "null" -> FALSE
      [] v.type = "string" -> v.str # ""
      [] v.type = "boolean" -> v.bool
      [] OTHER -> TRUE

\* v.length as JavaScript evaluates it: a number for arrays and strings,
\* undefined (here -1) for anything else.  StringLength lists the strings
\* whose length the program reads.
StringLength(s) ==
    CASE s = "" -> 0
      [] s = "abc" -> 3

LengthOf(v) ==
    CASE v.type = "array" -> Len(v.items)
      [] v.type = "string" -> StringLength(v.str)
      [] OTHER -> -1

\* String.prototype.toLowerCase on the strings the model uses.
toLowerCase(s) ==
    CASE s = "Not Found" -> "not found"
      [] s = "NOT FOUND" -> "not found"
      [] OTHER -> s

\* -------------------------------------------------------------- model text
\* The text of a model response, described by what the two searches of
\* parseJsonResponse find in it: the first fenced block and the span from
\* the first '{' to the last '}'.
NoMatch == [kind |-> "none"]
Invalid == [kind |-> "invalid"]
Json(v) == [kind |-> "json", value |-> v]
Text(fence, brace) == [empty |-> FALSE, fence |-> fence, brace |-> brace]
EmptyText == [empty |-> TRUE, fence |-> NoMatch, brace |-> NoMatch]

\* A response the service blocked for content policy: generateContent
\* resolves, the response carries the block reason and has no text.  The
\* program reads only response.text.
BlockedText == [empty |-> TRUE, fence |-> NoMatch, brace |-> NoMatch, blockReason |-> "SAFETY"]
Blocked(text) == "blockReason" \in DOMAIN text

Returned(v) == [ok |-> TRUE, value |-> v]
Thrown(e) == [ok |-> FALSE, error |-> e]

InvalidFormatError ==
    [name |-> "Error", message |-> "The AI returned a response in an invalid format.",
     status |-> "", code |-> 0]

\* ------------------------------------------------------- text as characters
\* A text as a sequence of characters.  Fence is the marker of three
\* backticks, "json" the language tag, " " any whitespace, "x" any other prose character, "{" and
\* "}" the braces and "k" a member ("a": 1) of a JSON object.
Fence == "fence"
Tag == "json"
Space == " "
Chars == {Fence, Tag, Space, "x", "{", "}", "k"}

JNumber == [type |-> "number"]
JMember == [type |-> "object", a |-> JNumber]

\* JSON.parse of a character sequence: whitespace between tokens is
\* insignificant, and {} and {"a": 1} are the JSON texts of this alphabet.
JSONparse(chars) ==
    LET tokens == SelectSeq(chars, LAMBDA c : c # Space) IN
    CASE tokens = <<"{", "}">> -> Json(JEmptyObject)
      [] tokens = <<"{", "k", "}">> -> Json(JMember)
      [] OTHER -> Invalid

\* indexOf and lastIndexOf, from 1; 0 for the -1 of the code.
indexOf(chars, c) ==
    IF \E i \in 1..Len(chars) : chars[i] = c
    THEN CHOOSE i \in 1..Len(chars) : chars[i] = c /\ \A h \in 1..(i - 1) : chars[h] # c
    ELSE 0


\* As lastIndexOf, finding the first occurrence after the first one instead of
\* the last.
lastIndexOfNext(chars, c) ==
    LET first == indexOf(chars, c) IN
    IF \E i \in (first + 1)..Len(chars) : chars[i] = c
    THEN CHOOSE i \in (first + 1)..Len(chars) :
            chars[i] = c /\ \A h \in (first + 1)..(i - 1) : chars[h] # c
    ELSE first

lastIndexOf(chars, c) ==
    IF \E i \in 1..Len(chars) : chars[i] = c
    THEN CHOOSE i \in 1..Len(chars) :
            chars[i] = c /\ \A h \in (i + 1)..Len(chars) : chars[h] # c
    ELSE 0

\* Line 33: text.match(/```(?:json)?\s*([\s\S]*?)\s*```/).  The match starts
\* at the first fence marker that has another marker after it, skips the tag
\* and the whitespace, and captures up to the whitespace before the next
\* marker.  The result is the capture, or "none" when nothing matches.
NoCapture == [found |-> FALSE, group |-> <<>>]

codeBlockMatch(chars) ==
    LET open == indexOf(chars, Fence)
        afterTag == IF open > 0 /\ open < Len(chars) /\ chars[open + 1] = Tag
                    THEN open + 2 ELSE open + 1
        closes == {i \in afterTag..Len(chars) : chars[i] = Fence}
    IN
    IF open = 0 \/ closes = {} THEN NoCapture
    ELSE LET close == CHOOSE i \in closes : \A h \in closes : i <= h
             inner == {i \in afterTag..(close - 1) : chars[i] # Space}
         IN
         IF inner = {} THEN [found |-> TRUE, group |-> <<>>]
         ELSE LET from == CHOOSE i \in inner : \A h \in inner : i <= h
                  to == CHOOSE i \in inner : \A h \in inner : i >= h
              IN [found |-> TRUE, group |-> SubSeq(chars, from, to)]


\* Lines 34-42: what the code-block attempt yields.
fenceSearch(chars) ==
    LET m == codeBlockMatch(chars) IN
    IF m.found /\ m.group # <<>> THEN JSONparse(m.group) ELSE NoMatch

\* Lines 47-57: what the brace attempt yields.
braceSearch(chars) ==
    LET firstBrace == indexOf(chars, "{")
        lastBrace == lastIndexOf(chars, "}")
    IN
    IF firstBrace # 0 /\ lastBrace > firstBrace
    THEN JSONparse(SubSeq(chars, firstBrace, lastBrace))
    ELSE NoMatch

\* What the two searches of parseJsonResponse find in a text.
Scan(chars) ==
    [empty |-> chars = <<>>, fence |-> fenceSearch(chars), brace |-> braceSearch(chars)]

\* Lines 27-62, given what the searches find.
parseJsonResponse(text) ==
    IF text.empty THEN Returned(JEmptyObject)
    ELSE IF text.fence.kind = "json" THEN Returned(text.fence.value)
    ELSE IF text.brace.kind = "json" THEN Returned(text.brace.value)
    ELSE Thrown(InvalidFormatError)

\* ------------------------------------------------------------------ errors
AIServiceError ==
    [name |-> "AIServiceError",
     message |-> "There's a problem on our end. The AI service seems to be unavailable or overloaded. Please try again in a few moments.",
     status |-> "", code |-> 0]
FailedToFindError ==
    [name |-> "Error",
     message |-> "Failed to find businesses. The AI may be experiencing high demand. Please try again later.",
     status |-> "", code |-> 0]
NoBusinessesError ==
    [name |-> "Error",
     message |-> "No businesses found matching your criteria. Try broadening your search.",
     status |-> "", code |-> 0]
ResearchFailedError ==
    [name |-> "Error",
     message |-> "There was a problem on our end researching the businesses. The AI service may be temporarily unavailable. Please try again later.",
     status |-> "", code |-> 0]
\* What the JavaScript engine throws on a property read of null/undefined or
\* a call of something that is not a function.
TypeError == [name |-> "TypeError", message |-> "<engine message>", status |-> "", code |-> 0]
NoError == [name |-> "", message |-> "", status |-> "", code |-> 0]

\* Errors the model client can reject a generateContent call with.
ClientErrors ==
    { [name |-> "ApiError", message |-> "got status: 500 internal", status |-> "INTERNAL", code |-> 500],
      [name |-> "ApiError", message |-> "request failed", status |-> "UNKNOWN", code |-> 2],
      [name |-> "ApiError", message |-> "request aborted", status |-> "ABORTED", code |-> 6],
      [name |-> "ApiError", message |-> "api key not valid", status |-> "INVALID_ARGUMENT", code |-> 400] }

\* errorMessage.includes(pattern) on the lower-cased messages above.
Includes(message, pattern) ==
    <<message, pattern>> \in { <<"got status: 500 internal", "500">>,
                              <<"got status: 500 internal", "internal">>,
                              <<NoBusinessesError.message, "No businesses found">>,
                              <<InvalidFormatError.message, "invalid format">> }


\* As isServerError, taking any status the client reports for a server status.
isServerErrorAnyStatus(e) ==
    \/ Includes(toLowerCase(e.message), "500")
    \/ Includes(toLowerCase(e.message), "internal")
    \/ Includes(toLowerCase(e.message), "resource exhausted")
    \/ Includes(toLowerCase(e.message), "server error")
    \/ Includes(toLowerCase(e.message), "backend error")
    \/ e.status # ""
    \/ e.code = 6

\* Lines 77-84: the classification of a rejected call.
isServerError(e) ==
    \/ Includes(toLowerCase(e.message), "500")
    \/ Includes(toLowerCase(e.message), "internal")
    \/ Includes(toLowerCase(e.message), "resource exhausted")
    \/ Includes(toLowerCase(e.message), "server error")
    \/ Includes(toLowerCase(e.message), "backend error")
    \/ e.status = "UNKNOWN"
    \/ e.code = 6

\* ------------------------------------------------ generateContentWithRetry
\* One logical request: the chain of recursive generateContentWithRetry
\* calls.  calls counts ai.models.generateContent invocations, waits records
\* the setTimeout delays that were waited.
NoRequest ==
    [st |-> "none", retries |-> 0, delay |-> 0, calls |-> 0, waits |-> <<>>, err |-> NoError]
NewRequest ==
    [st |-> "inflight", retries |-> DefaultRetries, delay |-> DefaultDelay, calls |-> 1,
     waits |-> <<>>, err |-> NoError]


\* As OnCallError, with the budget test off by one (retries >= 0).
OnCallErrorExtraRetry(r, e) ==
    IF r.retries >= 0 /\ isServerError(e)
    THEN [r EXCEPT !.st = "backoff", !.waits = Append(@, r.delay)]
    ELSE [r EXCEPT !.st = "rejected",
                   !.err = IF isServerError(e) THEN AIServiceError ELSE e]

\* The catch block: back off and retry, or reject.
OnCallError(r, e) ==
    IF r.retries > 0 /\ isServerError(e)
    THEN [r EXCEPT !.st = "backoff", !.waits = Append(@, r.delay)]
    ELSE [r EXCEPT !.st = "rejected",
                   !.err = IF isServerError(e) THEN AIServiceError ELSE e]


\* As OnBackoffElapsed, with a linear backoff (delay + 1000) instead of the
\* doubling.
OnBackoffElapsedLinear(r) ==
    [r EXCEPT !.st = "inflight", !.retries = @ - 1, !.delay = @ + DefaultDelay,
              !.calls = @ + 1]

\* The backoff timer fires: the recursive call with retries - 1, delay * 2.
OnBackoffElapsed(r) ==
    [r EXCEPT !.st = "inflight", !.retries = @ - 1, !.delay = @ * 2, !.calls = @ + 1]

OnCallResolved(r) == [r EXCEPT !.st = "resolved"]

\* A settled detail or validation request: its promise chain is garbage once
\* the caller has consumed the result, so only how it settled is kept.
Retired(r) == [NoRequest EXCEPT !.st = r.st]

\* ---------------------------------------------------------------- progress
\* Progress values are fractions: simulateProgress divides by the number of
\* company names.
Whole(v) == [num |-> v, den |-> 1]
Leq(p, q) == p.num * q.den <= q.num * p.den
Update(status, progress) == [status |-> status, progress |-> progress]


\* As ResearchProgress, with the band running up to the final 100 instead of
\* stopping below the verification step.
ResearchProgressToFinal(i, n) ==
    [num |-> FoundProgress * n + (i + 1) * (FinalProgress - FoundProgress), den |-> n]

\* currentProgress of simulateProgress for loop index i (from 0) of n names.
ResearchProgress(i, n) == [num |-> FoundProgress * n + (i + 1) * ResearchBand, den |-> n]

\* ------------------------------------------------------------------- leads
Names == {"Acme Logistics", "Lonestar Freight"}

LeadObject(name, website, emails, phones) ==
    [type |-> "object", businessName |-> JString(name), officialWebsite |-> website,
     contactEmail |-> emails, contactPhone |-> phones,
     companyDescription |-> JString("description")]

\* Leads a detail response may carry for a company: one that validateLead
\* validates, one with the sentinel for a website, one without website and
\* contact data, and one with a website that is not a string (the response is
\* untyped JSON).  ValidationInputs has every combination.
ResearchLeads(name) ==
    { LeadObject(name, JString("https://a.com"), JArray(<<JString("info@a.com")>>), JArray(<<>>)),
      LeadObject(name, JString("Not Found"), JArray(<<>>), JArray(<<JString("555-1234")>>)),
      LeadObject(name, JUndefined, JUndefined, JUndefined),
      LeadObject(name, JArray(<<JString("https://a.com")>>), JArray(<<>>), JArray(<<>>)) }

Pending == [type |-> "pending"]
Rejected == [type |-> "rejected"]

\* ------------------------------------------------------------ validateLead
\* Lines 336-341: what validateLead does before its try block.
\*   "throw"    toLowerCase is called on a truthy website that is not a string
\*   "skip"     return lead
\*   "validate" go on to the model request

\* As hasContactInfo, looking at the emails only.
hasContactInfoEmailOnly(lead) ==
    Truthy(Get(lead, "contactEmail")) /\ LengthOf(Get(lead, "contactEmail")) > 0

hasContactInfo(lead) ==
    \/ Truthy(Get(lead, "contactEmail")) /\ LengthOf(Get(lead, "contactEmail")) > 0
    \/ Truthy(Get(lead, "contactPhone")) /\ LengthOf(Get(lead, "contactPhone")) > 0

hasWebsite(lead) ==
    /\ Truthy(Get(lead, "officialWebsite"))
    /\ toLowerCase(Get(lead, "officialWebsite").str) # "not found"

validateLeadEntry(lead) ==
    LET w == Get(lead, "officialWebsite") IN
    IF Truthy(w) /\ w.type # "string" THEN "throw"
    ELSE IF ~hasWebsite(lead) \/ ~hasContactInfo(lead) THEN "skip"
    ELSE "validate"


\* As shouldCorrect, without the typeof test: a missing isCorrect counts as
\* false.
shouldCorrectFalsy(validationData) ==
    LET isCorrect == Get(validationData, "isCorrect")
        corrected == Get(validationData, "correctedWebsite") IN
    /\ ~Truthy(isCorrect)
    /\ Truthy(corrected)
    /\ toLowerCase(corrected.str) # "not found"

\* As shouldCorrect, comparing with the sentinel without lower-casing.
shouldCorrectCaseSensitive(validationData) ==
    LET isCorrect == Get(validationData, "isCorrect")
        corrected == Get(validationData, "correctedWebsite") IN
    /\ isCorrect.type = "boolean"
    /\ ~isCorrect.bool
    /\ Truthy(corrected)
    /\ corrected.str # "Not Found"

\* Line 355: the condition under which the website is replaced.  It is only
\* evaluated on an object whose correctedWebsite, when truthy, is a string.
shouldCorrect(validationData) ==
    LET isCorrect == Get(validationData, "isCorrect")
        corrected == Get(validationData, "correctedWebsite") IN
    /\ isCorrect.type = "boolean"
    /\ ~isCorrect.bool
    /\ Truthy(corrected)
    /\ toLowerCase(corrected.str) # "not found"


\* As validateLeadCatch, returning null the way the research .catch does.
validateLeadCatchNull(lead) == JNull

\* Line 364: the catch block of validateLead.
validateLeadCatch(lead) == lead


\* As validateLeadResult, with the corrected lead built without the spread of
\* the input lead.
validateLeadResultNoSpread(lead, text) ==
    LET parsed == parseJsonResponse(text) IN
    IF ~parsed.ok THEN validateLeadCatch(lead)
    ELSE IF parsed.value.type = "null" THEN validateLeadCatch(lead)
    ELSE LET corrected == Get(parsed.value, "correctedWebsite")
             isCorrect == Get(parsed.value, "isCorrect") IN
         IF isCorrect.type = "boolean" /\ ~isCorrect.bool
               /\ Truthy(corrected) /\ corrected.type # "string"
         THEN validateLeadCatch(lead)
         ELSE IF shouldCorrect(parsed.value)
         THEN [type |-> "object", officialWebsite |-> corrected]
         ELSE lead

\* Lines 353-365: the lead validateLead resolves with for a response text.
validateLeadResult(lead, text) ==
    LET parsed == parseJsonResponse(text) IN
    IF ~parsed.ok THEN validateLeadCatch(lead)
    ELSE IF parsed.value.type = "null" THEN validateLeadCatch(lead)
    ELSE LET corrected == Get(parsed.value, "correctedWebsite")
             isCorrect == Get(parsed.value, "isCorrect") IN
         IF isCorrect.type = "boolean" /\ ~isCorrect.bool
               /\ Truthy(corrected) /\ corrected.type # "string"
         THEN validateLeadCatch(lead)
         ELSE IF shouldCorrect(parsed.value)
         THEN [lead EXCEPT !.officialWebsite = corrected]
         ELSE lead

\* ------------------------------------------------------- model responses
\* The company lists a discovery response may carry: one per length, the
\* two names alternating (so a list of three repeats a name).
NameAt(k) == IF k % 2 = 1 THEN "Acme Logistics" ELSE "Lonestar Freight"
NameLists == { [k \in 1..n |-> NameAt(k)] : n \in 0..MaxCompanies }
NameArray(list) == JArray([k \in 1..Len(list) |-> JString(list[k])])
DiscoveryObject(companyNames) == [type |-> "object", companyNames |-> companyNames]

DiscoveryTexts ==
    { EmptyText, BlockedText, Text(NoMatch, NoMatch), Text(Invalid, Invalid),
      Text(Json(JNull), NoMatch), Text(NoMatch, Json(JEmptyObject)),
      Text(Json(DiscoveryObject(JString("abc"))), NoMatch),
      Text(NoMatch, Json(DiscoveryObject([type |-> "number"]))) }
    \cup { Text(Json(DiscoveryObject(NameArray(l))), NoMatch) : l \in NameLists }
    \cup { Text(Invalid, Json(DiscoveryObject(NameArray(l)))) : l \in NameLists }

LeadsObject(leads) == [type |-> "object", leads |-> leads]

ResearchTexts(name) ==
    { EmptyText, Text(NoMatch, NoMatch), Text(Json(JNull), NoMatch),
      Text(NoMatch, Json(JEmptyObject)),
      Text(Json(LeadsObject(JArray(<<>>))), NoMatch) }
    \cup { Text(Json(LeadsObject(JArray(<<l>>))), NoMatch) : l \in ResearchLeads(name) }

ValidationObject(isCorrect, corrected) ==
    [type |-> "object", isCorrect |-> isCorrect, correctedWebsite |-> corrected]

ValidationTexts ==
    { EmptyText, BlockedText, Text(NoMatch, NoMatch), Text(Json(JNull), NoMatch) }
    \cup { Text(Json(ValidationObject(c, w)), NoMatch) :
             c \in {JBool(TRUE), JBool(FALSE), JUndefined, JString("false")},
             w \in {JUndefined, JString(""), JString("Not Found"), JString("NOT FOUND"),
                    JString("not found"), JString("https://b.com"),
                    JArray(<<JString("https://b.com")>>)} }

\* ------------------------------------------------------------------- state
VARIABLES
    phase,               \* where generateLeads is: "idle", "discovering",
                         \* "researching", "validating", "pausing",
                         \* "returned", "thrown"
    discoveryRequest,    \* the company-list request
    companyData,         \* the parsed company-list response
    companyNames,        \* companyData.companyNames || []
    simIndex,            \* loop variable i of simulateProgress
    simTimeout,          \* its setTimeout: "none", "pending", "cleared"
    simulationCancelled,
    researchRequests,    \* one request per company name
    initialResults,      \* what each researchPromise settled with
    successfulLeads,
    validationRequests,  \* one request per successful lead
    validatedLeads,      \* what each validateLead promise settled with
    progressUpdates,     \* every onProgressUpdate call of the run, in order
    outcome,             \* what generateLeads resolved or rejected with
    validateCall,        \* one validateLead call on its own (ValidateSpec)
    app,                 \* the App component and the leads store (AppSpec)
    parseCall            \* one parseJsonResponse call on its own (ParseSpec)

vars == <<phase, discoveryRequest, companyData, companyNames, simIndex, simTimeout, simulationCancelled,
          researchRequests, initialResults, successfulLeads, validationRequests,
          validatedLeads, progressUpdates, outcome, validateCall, app, parseCall>>

NoOutcome == [kind |-> "none", leads |-> <<>>, error |-> NoError]
ReturnedLeads(leads) == [kind |-> "returned", leads |-> leads, error |-> NoError]
ThrownError(e) == [kind |-> "thrown", leads |-> <<>>, error |-> e]

pipelineVars == <<phase, discoveryRequest, companyData, companyNames, simIndex, simTimeout,
                  simulationCancelled, researchRequests, initialResults, successfulLeads,
                  validationRequests, validatedLeads, progressUpdates, outcome>>

NoReply == [kind |-> "none"]
TextReply(text) == [kind |-> "text", text |-> text]
ErrorReply(e) == [kind |-> "error", error |-> e]
NoCall == [st |-> "none", lead |-> JUndefined, request |-> NoRequest, reply |-> NoReply,
           result |-> Pending]

PipelineInit ==
    /\ phase = "idle"
    /\ discoveryRequest = NoRequest
    /\ companyData = JUndefined
    /\ companyNames = JArray(<<>>)
    /\ simIndex = 0
    /\ simTimeout = "none"
    /\ simulationCancelled = FALSE
    /\ researchRequests = <<>>
    /\ initialResults = <<>>
    /\ successfulLeads = <<>>
    /\ validationRequests = <<>>
    /\ validatedLeads = <<>>
    /\ progressUpdates = <<>>
    /\ outcome = NoOutcome

\* ------------------------------------------------------------ App: values
\* Strings the App concatenates are sequences of pieces, so that the id
\* `${businessName}-${officialWebsite}` is the concatenation it is in the code.
NoId == <<>>
AppLead(name, website, id) == [businessName |-> name, officialWebsite |-> website, id |-> id]

\* Leads generateLeads may return to the App.  The leads are the model's
\* JSON: names and websites may contain hyphens.
AppLeads ==
    { AppLead(<<"Acme">>, <<"freight", "-", "a.com">>, NoId),
      AppLead(<<"Acme", "-", "freight">>, <<"a.com">>, NoId),
      AppLead(<<"Lonestar">>, <<"Not Found">>, NoId) }

\* Errors generateLeads may throw to the App.
AppErrors ==
    {AIServiceError, FailedToFindError, NoBusinessesError, ResearchFailedError,
     InvalidFormatError, TypeError}

\* The error openDB, and so every addLead and getLeads, rejects with when the
\* browser refuses the database.
DatabaseError ==
    [name |-> "InvalidStateError", message |-> "<database message>", status |-> "", code |-> 0]

\* App state after mount on an empty leads store.  returnedNames and
\* clearedDuringRun are history variables: the business names of the leads
\* returned by the runs whose auto-save completed since the last clear-all,
\* and whether clear-all was invoked during the current run.
InitialApp ==
    [pc |-> "idle", runs |-> 0, isLoading |-> FALSE, error |-> "null", leads |-> <<>>,
     savedLeads |-> {}, store |-> {}, excludedBusinesses |-> {}, results |-> <<>>,
     saveIndex |-> 0, saveFailed |-> FALSE, posts |-> 0, auditPending |-> 0,
     auditLog |-> "", clearPc |-> "none", returnedNames |-> {}, clearedDuringRun |-> FALSE,
     generationStatus |-> "", generationProgress |-> 0, simulating |-> FALSE]

\* No parseJsonResponse call on its own.
NoParse == [st |-> "none", text |-> <<>>, result |-> Returned(JUndefined)]

Init == PipelineInit /\ validateCall = NoCall /\ app = InitialApp /\ parseCall = NoParse

researchVars == <<researchRequests, initialResults>>
validationVars == <<successfulLeads, validationRequests, validatedLeads>>
simVars == <<simIndex, simTimeout, simulationCancelled>>

\* ------------------------------------------------------ generateLeads: start
\* Lines 376-386: the first progress update and the company-list request.
GenerateLeads ==
    /\ phase = "idle"
    /\ phase' = "discovering"
    /\ progressUpdates' = Append(progressUpdates, Update("Scanning", Whole(InitialProgress)))
    /\ discoveryRequest' = NewRequest
    /\ UNCHANGED <<companyData, companyNames, simVars, researchVars, validationVars, outcome>>
    /\ UNCHANGED <<validateCall, app, parseCall>>

\* Lines 387-393: the catch around the company-list request.
discoveryCatch(e) == IF e.name = "AIServiceError" THEN e ELSE FailedToFindError

\* The company-list call fails: generateContentWithRetry backs off or
\* rejects, and a rejection ends the run.
DiscoveryCallFails(e) ==
    /\ phase = "discovering"
    /\ discoveryRequest.st = "inflight"
    /\ discoveryRequest' = OnCallError(discoveryRequest, e)
    /\ IF discoveryRequest'.st = "rejected"
       THEN /\ phase' = "thrown"
            /\ outcome' = ThrownError(discoveryCatch(discoveryRequest'.err))
       ELSE UNCHANGED <<phase, outcome>>
    /\ UNCHANGED <<companyData, companyNames, simVars, researchVars, validationVars, progressUpdates>>
    /\ UNCHANGED <<validateCall, app, parseCall>>

DiscoveryBackoffElapsed ==
    /\ phase = "discovering"
    /\ discoveryRequest.st = "backoff"
    /\ discoveryRequest' = OnBackoffElapsed(discoveryRequest)
    /\ UNCHANGED <<phase, companyData, companyNames, simVars, researchVars, validationVars,
                   progressUpdates, outcome>>
    /\ UNCHANGED <<validateCall, app, parseCall>>

\* Line 396: companyData.companyNames || [].
companyNamesOf(data) ==
    IF Truthy(Get(data, "companyNames"))
    THEN Get(data, "companyNames")
    ELSE JArray(<<>>)


\* As noCompanies, testing for a missing length instead of a zero length.
noCompaniesMissingOnly(names) == LengthOf(names) < 0

\* Line 398: the empty-list check.
noCompanies(names) == LengthOf(names) = 0

\* Lines 395-456: the company-list response arrives.  The names are parsed
\* and checked, simulateProgress sets its first timer and every detail
\* request is issued, all in the same turn.
DiscoveryResponds(text) ==
    /\ phase = "discovering"
    /\ discoveryRequest.st = "inflight"
    /\ discoveryRequest' = OnCallResolved(discoveryRequest)
    /\ LET parsed == parseJsonResponse(text) IN
       IF ~parsed.ok
       THEN /\ phase' = "thrown"
            /\ outcome' = ThrownError(parsed.error)
            /\ UNCHANGED <<companyData, companyNames, simVars, researchVars, progressUpdates>>
       ELSE IF parsed.value.type = "null"
       THEN /\ phase' = "thrown"
            /\ outcome' = ThrownError(TypeError)
            /\ companyData' = parsed.value
            /\ UNCHANGED <<companyNames, simVars, researchVars, progressUpdates>>
       ELSE LET names == companyNamesOf(parsed.value)
                n == LengthOf(names) IN
            /\ companyData' = parsed.value
            /\ companyNames' = names
            /\ IF noCompanies(names)
               THEN /\ phase' = "thrown"
                    /\ outcome' = ThrownError(NoBusinessesError)
                    /\ UNCHANGED <<simVars, researchVars, progressUpdates>>
               ELSE /\ progressUpdates' =
                          Append(progressUpdates, Update("Found", Whole(FoundProgress)))
                    /\ simIndex' = 0
                    /\ simTimeout' = IF 0 < n THEN "pending" ELSE "none"
                    /\ UNCHANGED simulationCancelled
                    /\ IF names.type = "array"
                       THEN /\ phase' = "researching"
                            /\ researchRequests' = [k \in 1..n |-> NewRequest]
                            /\ initialResults' = [k \in 1..n |-> Pending]
                            /\ UNCHANGED outcome
                       ELSE /\ phase' = "thrown"
                            /\ outcome' = ThrownError(TypeError)
                            /\ UNCHANGED researchVars
    /\ UNCHANGED validationVars
    /\ UNCHANGED <<validateCall, app, parseCall>>

\* Lines 413-427: a simulateProgress timer fires, and the loop sets the next.
SimulateProgressTimer ==
    /\ simTimeout = "pending"
    /\ LET n == LengthOf(companyNames) IN
       /\ progressUpdates' =
             IF simulationCancelled THEN progressUpdates
             ELSE Append(progressUpdates, Update("Researching", ResearchProgress(simIndex, n)))
       /\ simIndex' = simIndex + 1
       /\ simTimeout' = IF simIndex + 1 < n THEN "pending" ELSE "none"
    /\ UNCHANGED <<phase, discoveryRequest, companyData, companyNames, simulationCancelled, researchVars,
                   validationVars, outcome>>
    /\ UNCHANGED <<validateCall, app, parseCall>>

\* --------------------------------------------------- generateLeads: research
\* Lines 445-455: what a researchPromise settles with for a response text.
\* A parser error and a property read of null are caught and give null.
researchResult(text) ==
    LET parsed == parseJsonResponse(text) IN
    IF ~parsed.ok THEN JNull
    ELSE IF parsed.value.type = "null" THEN JNull
    ELSE LET leads == Get(parsed.value, "leads") IN
         IF Truthy(leads) /\ LengthOf(leads) > 0 THEN leads.items[1] ELSE JNull


\* As filterSuccessful, with the filter left out.
filterSuccessfulKeepsAll(results) == results

\* Line 463: initialResults.filter(lead => lead !== null).
filterSuccessful(results) == SelectSeq(results, LAMBDA lead : lead.type # "null")


\* As allResearchFailed, with the first comparison turned around.
allResearchFailedInverted(names, leads) == LengthOf(names) <= 0 /\ Len(leads) = 0

\* Line 465: the all-failed check.
allResearchFailed(names, leads) == LengthOf(names) > 0 /\ Len(leads) = 0

\* Promise.all over settled-or-pending promises.
AnyRejected(promises) == \E j \in 1..Len(promises) : promises[j].type = "rejected"

\* As AnyPending, looking at the first promise only: the await ends as soon
\* as the first promise has settled.
AnyPendingFirst(promises) == Len(promises) > 0 /\ promises[1].type = "pending"

AnyPending(promises) == \E j \in 1..Len(promises) : promises[j].type = "pending"

\* Lines 458-475, run in the turn in which the last researchPromise settles:
\* the simulation is cancelled, the nulls are filtered out, and either the
\* run throws or validateLead is called on every lead.
ResearchJoin(results) ==
    LET leads == filterSuccessful(results)
        m == Len(leads)
        entry == [j \in 1..m |-> validateLeadEntry(leads[j])]
        promises == [j \in 1..m |->
                        CASE entry[j] = "throw" -> Rejected
                          [] entry[j] = "skip" -> leads[j]
                          [] OTHER -> Pending]
        verifying == Append(progressUpdates, Update("Verifying", Whole(VerifyProgress)))
    IN
    /\ simulationCancelled' = TRUE
    /\ simTimeout' = IF simTimeout = "pending" THEN "cleared" ELSE simTimeout
    /\ UNCHANGED simIndex
    /\ successfulLeads' = leads
    /\ IF allResearchFailed(companyNames, leads)
       THEN /\ phase' = "thrown"
            /\ outcome' = ThrownError(ResearchFailedError)
            /\ UNCHANGED <<validationRequests, validatedLeads, progressUpdates>>
       ELSE /\ validationRequests' =
                  [j \in 1..m |-> IF entry[j] = "validate" THEN NewRequest ELSE NoRequest]
            /\ validatedLeads' = promises
            /\ IF AnyRejected(promises)
               THEN /\ phase' = "thrown"
                    /\ outcome' = ThrownError(TypeError)
                    /\ progressUpdates' = verifying
               ELSE IF AnyPending(promises)
               THEN /\ phase' = "validating"
                    /\ progressUpdates' = verifying
                    /\ UNCHANGED outcome
               ELSE /\ phase' = "pausing"
                    /\ progressUpdates' =
                          Append(verifying, Update("Compiling", Whole(FinalProgress)))
                    /\ UNCHANGED outcome


\* As ResearchSettles, with a race in place of the join: the code after the
\* await runs as soon as one researchPromise has settled.
ResearchSettlesRace(k, value) ==
    /\ initialResults' = [initialResults EXCEPT ![k] = value]
    /\ ResearchJoin(initialResults')

\* researchPromise k settles with value; the join runs if it was the last.
ResearchSettles(k, value) ==
    /\ initialResults' = [initialResults EXCEPT ![k] = value]
    /\ IF AnyPending(initialResults')
       THEN UNCHANGED <<phase, simVars, validationVars, progressUpdates, outcome>>
       ELSE ResearchJoin(initialResults')

\* A detail call fails: back off, or reject, which the .catch turns into null.
ResearchCallFails(k, e) ==
    /\ phase = "researching"
    /\ researchRequests[k].st = "inflight"
    /\ IF OnCallError(researchRequests[k], e).st = "rejected"
       THEN /\ researchRequests' =
                  [researchRequests EXCEPT ![k] = Retired(OnCallError(@, e))]
            /\ ResearchSettles(k, JNull)
       ELSE /\ researchRequests' = [researchRequests EXCEPT ![k] = OnCallError(@, e)]
            /\ UNCHANGED <<phase, simVars, initialResults, validationVars, progressUpdates, outcome>>
    /\ UNCHANGED <<discoveryRequest, companyData, companyNames>>
    /\ UNCHANGED <<validateCall, app, parseCall>>

ResearchBackoffElapsed(k) ==
    /\ phase = "researching"
    /\ researchRequests[k].st = "backoff"
    /\ researchRequests' = [researchRequests EXCEPT ![k] = OnBackoffElapsed(@)]
    /\ UNCHANGED <<phase, discoveryRequest, companyData, companyNames, simVars, initialResults,
                   validationVars, progressUpdates, outcome>>
    /\ UNCHANGED <<validateCall, app, parseCall>>

ResearchResponds(k, text) ==
    /\ phase = "researching"
    /\ researchRequests[k].st = "inflight"
    /\ researchRequests' = [researchRequests EXCEPT ![k] = Retired(OnCallResolved(@))]
    /\ ResearchSettles(k, researchResult(text))
    /\ UNCHANGED <<discoveryRequest, companyData, companyNames>>
    /\ UNCHANGED <<validateCall, app, parseCall>>

\* ------------------------------------------------- generateLeads: validation
\* As ValidationSettles, going on to the final update as soon as one
\* validation has settled.
ValidationSettlesFirst(j, lead) ==
    /\ validatedLeads' = [validatedLeads EXCEPT ![j] = lead]
    /\ IF phase = "validating"
       THEN /\ phase' = "pausing"
            /\ progressUpdates' =
                  Append(progressUpdates, Update("Compiling", Whole(FinalProgress)))
       ELSE UNCHANGED <<phase, progressUpdates>>

\* validateLead promise j settles with lead; lines 472-475 run if it was the
\* last one and the run is still waiting for the validations.
ValidationSettles(j, lead) ==
    /\ validatedLeads' = [validatedLeads EXCEPT ![j] = lead]
    /\ IF phase = "validating" /\ ~AnyPending(validatedLeads')
       THEN /\ phase' = "pausing"
            /\ progressUpdates' =
                  Append(progressUpdates, Update("Compiling", Whole(FinalProgress)))
       ELSE UNCHANGED <<phase, progressUpdates>>

\* A validation call fails: back off, or reject into the catch of validateLead.
ValidationCallFails(j, e) ==
    /\ validationRequests[j].st = "inflight"
    /\ IF OnCallError(validationRequests[j], e).st = "rejected"
       THEN /\ validationRequests' =
                  [validationRequests EXCEPT ![j] = Retired(OnCallError(@, e))]
            /\ ValidationSettles(j, validateLeadCatch(successfulLeads[j]))
       ELSE /\ validationRequests' = [validationRequests EXCEPT ![j] = OnCallError(@, e)]
            /\ UNCHANGED <<phase, validatedLeads, progressUpdates>>
    /\ UNCHANGED <<discoveryRequest, companyData, companyNames, simVars, researchVars, successfulLeads, outcome>>
    /\ UNCHANGED <<validateCall, app, parseCall>>

ValidationBackoffElapsed(j) ==
    /\ validationRequests[j].st = "backoff"
    /\ validationRequests' = [validationRequests EXCEPT ![j] = OnBackoffElapsed(@)]
    /\ UNCHANGED <<phase, discoveryRequest, companyData, companyNames, simVars, researchVars,
                   successfulLeads, validatedLeads, progressUpdates, outcome>>
    /\ UNCHANGED <<validateCall, app, parseCall>>

ValidationResponds(j, text) ==
    /\ validationRequests[j].st = "inflight"
    /\ validationRequests' = [validationRequests EXCEPT ![j] = Retired(OnCallResolved(@))]
    /\ ValidationSettles(j, validateLeadResult(successfulLeads[j], text))
    /\ UNCHANGED <<discoveryRequest, companyData, companyNames, simVars, researchVars, successfulLeads, outcome>>
    /\ UNCHANGED <<validateCall, app, parseCall>>

\* Lines 475-477: the 500 ms pause ends and generateLeads returns.
PauseElapsed ==
    /\ phase = "pausing"
    /\ phase' = "returned"
    /\ outcome' = ReturnedLeads(validatedLeads)
    /\ UNCHANGED <<discoveryRequest, companyData, companyNames, simVars, researchVars, validationVars,
                   progressUpdates>>
    /\ UNCHANGED <<validateCall, app, parseCall>>

\* ----------------------------------------------------------- specification
\* The validation responses and the task errors of a run.  validateLead is
\* checked on every response of ValidationTexts in ValidateSpec; a run needs
\* one response per way validateLead can settle.  The detail and validation
\* callers drop the error of a rejected request, so one transient and one
\* permanent error stand for all.
RunValidationTexts ==
    { Text(NoMatch, NoMatch),
      Text(Json(ValidationObject(JBool(FALSE), JString("Not Found"))), NoMatch),
      Text(Json(ValidationObject(JBool(FALSE), JString("https://b.com"))), NoMatch) }

TaskErrors == {e \in ClientErrors : e.code \in {500, 400}}

\* The requests of a list whose generateContent call is awaited (line 72).
InFlight(requests) == {k \in 1..Len(requests) : requests[k].st = "inflight"}

\* The tasks of a list that wait in the setTimeout of line 89.
BackingOff(requests) == {k \in 1..Len(requests) : requests[k].st = "backoff"}

Next ==
    \/ GenerateLeads
    \/ phase = "discovering" /\ \E e \in ClientErrors : DiscoveryCallFails(e)
    \/ DiscoveryBackoffElapsed
    \/ phase = "discovering" /\ \E text \in DiscoveryTexts : DiscoveryResponds(text)
    \/ SimulateProgressTimer
    \/ \E k \in InFlight(researchRequests) : \E e \in TaskErrors : ResearchCallFails(k, e)
    \/ \E k \in BackingOff(researchRequests) : ResearchBackoffElapsed(k)
    \/ \E k \in InFlight(researchRequests) :
          \E text \in ResearchTexts(companyNames.items[k].str) : ResearchResponds(k, text)
    \/ \E j \in InFlight(validationRequests) : \E e \in TaskErrors : ValidationCallFails(j, e)
    \/ \E j \in BackingOff(validationRequests) : ValidationBackoffElapsed(j)
    \/ \E j \in InFlight(validationRequests) :
          \E text \in RunValidationTexts : ValidationResponds(j, text)
    \/ PauseElapsed

Spec == Init /\ [][Next]_vars

\* ------------------------------------------------- validateLead on its own
\* One validateLead call (lines 335-366) for every lead shape and every
\* reply of the model: its entry check, its request and its result.
ValidationInputs ==
    { LeadObject(name, website, emails, phones) :
        name \in Names,
        website \in {JUndefined, JString(""), JString("Not Found"), JString("NOT FOUND"),
                     JString("not found"), JString("https://a.com"),
                     JArray(<<JString("https://a.com")>>)},
        emails \in {JUndefined, JArray(<<>>), JArray(<<JString("info@a.com")>>)},
        phones \in {JArray(<<>>), JArray(<<JString("555-1234")>>)} }

ValidateInit ==
    /\ PipelineInit
    /\ app = InitialApp
    /\ parseCall = NoParse
    /\ validateCall \in { [NoCall EXCEPT !.st = "called", !.lead = lead] :
                            lead \in ValidationInputs }

\* Lines 336-351: the entry check, and the request when it passes.
ValidateLeadEnters ==
    /\ validateCall.st = "called"
    /\ LET entry == validateLeadEntry(validateCall.lead) IN
       validateCall' =
          CASE entry = "throw" -> [validateCall EXCEPT !.st = "rejected", !.result = Rejected]
            [] entry = "skip" -> [validateCall EXCEPT !.st = "resolved", !.result = validateCall.lead]
            [] OTHER -> [validateCall EXCEPT !.st = "requesting", !.request = NewRequest]
    /\ UNCHANGED <<pipelineVars, app, parseCall>>

ValidateLeadCallFails(e) ==
    /\ validateCall.st = "requesting"
    /\ validateCall.request.st = "inflight"
    /\ LET r == OnCallError(validateCall.request, e) IN
       validateCall' =
          IF r.st = "rejected"
          THEN [validateCall EXCEPT !.st = "resolved", !.request = r, !.reply = ErrorReply(e),
                                    !.result = validateLeadCatch(validateCall.lead)]
          ELSE [validateCall EXCEPT !.request = r]
    /\ UNCHANGED <<pipelineVars, app, parseCall>>

ValidateLeadBackoffElapsed ==
    /\ validateCall.st = "requesting"
    /\ validateCall.request.st = "backoff"
    /\ validateCall' = [validateCall EXCEPT !.request = OnBackoffElapsed(@)]
    /\ UNCHANGED <<pipelineVars, app, parseCall>>

ValidateLeadResponds(text) ==
    /\ validateCall.st = "requesting"
    /\ validateCall.request.st = "inflight"
    /\ validateCall' =
          [validateCall EXCEPT !.st = "resolved", !.request = OnCallResolved(@),
                               !.reply = TextReply(text),
                               !.result = validateLeadResult(validateCall.lead, text)]
    /\ UNCHANGED <<pipelineVars, app, parseCall>>

ValidateNext ==
    \/ ValidateLeadEnters
    \/ \E e \in ClientErrors : ValidateLeadCallFails(e)
    \/ ValidateLeadBackoffElapsed
    \/ \E text \in ValidationTexts : ValidateLeadResponds(text)

ValidateSpec == ValidateInit /\ [][ValidateNext]_vars

\* --------------------------------------------------------------------- App
\* App.handleGenerateLeads, handleSaveAllLeads, handleClearAllLeads and the
\* leads store of services/database.  generateLeads is seen from its caller:
\* it returns a non-empty list of leads or throws.
LeadsOfLength(n) == [1..n -> AppLeads]
GenerateLeadsResults == UNION { LeadsOfLength(n) : n \in 1..MaxCompanies }

\* Lines 536-538: the id a lead is stored under.
leadId(lead) ==
    IF lead.id # NoId THEN lead.id
    ELSE lead.businessName \o <<"-">> \o lead.officialWebsite

\* db.put on a store with keyPath 'id': insert, or replace the record that
\* has the same id.
put(store, lead) ==
    LET stored == [lead EXCEPT !.id = leadId(lead)] IN
    {l \in store : l.id # stored.id} \cup {stored}

BusinessNames(leads) == {lead.businessName : lead \in leads}
SeqNames(leads) == {leads[i].businessName : i \in 1..Len(leads)}

\* Lines 602-618: the message shown for an error.
friendlyMessage(err) ==
    IF err.name = "AIServiceError" THEN err.message
    ELSE IF Includes(err.message, "No businesses found")
    THEN "Couldn't find businesses matching your criteria. Please try broadening your search."
    ELSE IF Includes(err.message, "invalid format")
    THEN "The AI returned an unexpected response format. This can be a temporary issue. Please try again."
    ELSE "An error occurred during generation. Please adjust your search and try again."

\* Lines 549-560: the handler starts a run with the names of the saved leads
\* as exclusion list.  The form's button is disabled while isLoading.
HandleGenerateLeads ==
    /\ app.pc = "idle"
    /\ ~app.isLoading
    /\ app.runs < MaxRuns
    /\ app' = [app EXCEPT !.pc = "generating", !.runs = @ + 1, !.isLoading = TRUE,
                          !.error = "null", !.leads = <<>>,
                          !.generationStatus = "Initializing...", !.generationProgress = 0,
                          !.excludedBusinesses = BusinessNames(app.savedLeads),
                          !.results = <<>>, !.saveIndex = 0, !.saveFailed = FALSE,
                          !.posts = 0, !.clearedDuringRun = FALSE]
    /\ UNCHANGED <<pipelineVars, validateCall, parseCall>>

\* Lines 556-559: generateLeads calls handleProgressUpdate during the run.
HandleProgressUpdate ==
    /\ app.pc = "generating"
    /\ app' = [app EXCEPT !.generationStatus = "Researching",
                          !.generationProgress = FoundProgress]
    /\ UNCHANGED <<pipelineVars, validateCall, parseCall>>

\* Lines 565-569, 534-539: generateLeads returns; the leads are displayed and
\* handleSaveAllLeads issues addLead for the first of them.
GenerateLeadsReturns(results) ==
    /\ app.pc = "generating"
    /\ app' = [app EXCEPT !.pc = "saving", !.leads = results, !.results = results,
                          !.saveIndex = 1]
    /\ UNCHANGED <<pipelineVars, validateCall, parseCall>>

\* Lines 602-623: the catch and the finally block of handleGenerateLeads.
handleGenerateLeadsCatch(a, err) ==
    [a EXCEPT !.pc = "idle", !.error = friendlyMessage(err), !.isLoading = FALSE,
              !.generationStatus = "", !.generationProgress = 0]

\* Lines 600-623: generateLeads throws; the catch and the finally block.  A
\* run that throws the TypeError of companyNames.map leaves the timers of
\* simulateProgress set (geminiService lines 433-436).
GenerateLeadsThrows(err) ==
    /\ app.pc = "generating"
    /\ app' = [handleGenerateLeadsCatch(app, err) EXCEPT !.simulating = (err = TypeError)]
    /\ UNCHANGED <<pipelineVars, validateCall, parseCall>>

\* Lines 413-427 and 556-559: a timer of simulateProgress that was left set
\* fires and calls handleProgressUpdate; last tells whether it was the timer
\* of the last name.
SimulatedProgress(last) ==
    /\ app.simulating
    /\ app' = [app EXCEPT !.generationStatus = "Researching",
                          !.generationProgress = FoundProgress + ResearchBand,
                          !.simulating = ~last]
    /\ UNCHANGED <<pipelineVars, validateCall, parseCall>>

\* Lines 535-545: addLead resolves; the loop issues the next addLead, or the
\* finally block issues fetchData.
AddLeadResolves ==
    /\ app.pc = "saving"
    /\ app' = [app EXCEPT !.store = put(@, app.results[app.saveIndex]),
                          !.saveIndex = IF @ < Len(app.results) THEN @ + 1 ELSE @,
                          !.pc = IF app.saveIndex < Len(app.results)
                                 THEN "saving" ELSE "refreshing"]
    /\ UNCHANGED <<pipelineVars, validateCall, parseCall>>

\* Lines 541-545: addLead rejects; the catch logs and the finally block
\* issues fetchData.
AddLeadRejects ==
    /\ app.pc = "saving"
    /\ app' = [app EXCEPT !.pc = "refreshing", !.saveFailed = TRUE]
    /\ UNCHANGED <<pipelineVars, validateCall, parseCall>>

\* Lines 521-524, 574-599, 619-623: fetchData resolves, the audit POST is
\* sent without being awaited, and the finally block ends the run.
FetchDataResolves ==
    /\ app.pc = "refreshing"
    /\ app' = [app EXCEPT !.pc = "idle", !.savedLeads = app.store,
                          !.posts = @ + 1, !.auditPending = @ + 1,
                          !.isLoading = FALSE, !.results = <<>>, !.saveIndex = 0,
                          !.generationStatus = "", !.generationProgress = 0,
                          !.returnedNames =
                              IF app.saveFailed \/ app.clearedDuringRun THEN @
                              ELSE @ \cup SeqNames(app.results)]
    /\ UNCHANGED <<pipelineVars, validateCall, parseCall>>

\* Lines 520-521, 543-545, 602-623: the getLeads of fetchData rejects.  The
\* await is in the finally block of handleSaveAllLeads, so the rejection leaves
\* it and lands in the catch of handleGenerateLeads, past the audit POST.
FetchDataRejects ==
    /\ app.pc = "refreshing"
    /\ app' = [handleGenerateLeadsCatch(app, DatabaseError) EXCEPT
                  !.results = <<>>, !.saveIndex = 0]
    /\ UNCHANGED <<pipelineVars, validateCall, parseCall>>


\* As auditCatch, reporting the failure to the user as well.
auditCatchShowsError(a) ==
    [a EXCEPT !.auditLog = "Failed to write to audit log sheet",
              !.error = "Failed to write to audit log sheet"]

\* Lines 597-599: the .catch of the audit POST only logs to the console.
auditCatch(a) == [a EXCEPT !.auditLog = "Failed to write to audit log sheet"]

\* Lines 586-599: the audit POST settles: an OK response, a response that
\* is not OK, or a network error.
AuditSettles(result) ==
    /\ app.auditPending > 0
    /\ app' = IF result = "ok"
              THEN [app EXCEPT !.auditPending = @ - 1,
                               !.auditLog = "Successfully logged to sheet"]
              ELSE auditCatch([app EXCEPT !.auditPending = @ - 1])
    /\ UNCHANGED <<pipelineVars, validateCall, parseCall>>

\* Lines 640-641: clear-all is invoked (its button is disabled when no lead
\* is saved) and issues clearLeads.  The store orders its transactions by
\* creation, so the clear precedes every write issued after it.
HandleClearAllLeads ==
    /\ app.clearPc = "none"
    /\ app.savedLeads # {}
    /\ app' = [app EXCEPT !.clearPc = "clearing", !.store = {}, !.returnedNames = {},
                          !.clearedDuringRun = (app.pc # "idle")]
    /\ UNCHANGED <<pipelineVars, validateCall, parseCall>>

\* Lines 641-642: clearLeads resolves and fetchData is issued.
ClearLeadsResolves ==
    /\ app.clearPc = "clearing"
    /\ app' = [app EXCEPT !.clearPc = "refreshing"]
    /\ UNCHANGED <<pipelineVars, validateCall, parseCall>>

\* Lines 521-524: the fetchData of clear-all resolves.
ClearFetchResolves ==
    /\ app.clearPc = "refreshing"
    /\ app' = [app EXCEPT !.clearPc = "none", !.savedLeads = app.store]
    /\ UNCHANGED <<pipelineVars, validateCall, parseCall>>

AppNext ==
    \/ HandleGenerateLeads
    \/ \E results \in GenerateLeadsResults : GenerateLeadsReturns(results)
    \/ \E err \in AppErrors : GenerateLeadsThrows(err)
    \/ HandleProgressUpdate
    \/ \E last \in BOOLEAN : SimulatedProgress(last)
    \/ AddLeadResolves
    \/ AddLeadRejects
    \/ FetchDataResolves
    \/ FetchDataRejects
    \/ \E result \in {"ok", "notOk", "networkError"} : AuditSettles(result)
    \/ HandleClearAllLeads
    \/ ClearLeadsResolves
    \/ ClearFetchResolves

AppSpec == Init /\ [][AppNext]_vars

\* ------------------------------------------------ parseJsonResponse alone
\* parseJsonResponse as a function of the text: every text of up to MaxTextLen
\* characters, and every text of two fenced blocks of up to MaxBlockLen
\* characters each.
TextsUpTo(n) == UNION { [1..m -> Chars] : m \in 0..n }
TwoBlocks(a, b) == <<Fence>> \o a \o <<Fence, Fence>> \o b \o <<Fence>>
ParseInputs ==
    TextsUpTo(MaxTextLen)
       \cup { TwoBlocks(a, b) : a \in TextsUpTo(MaxBlockLen), b \in TextsUpTo(MaxBlockLen) }

ParseInit ==
    /\ PipelineInit
    /\ validateCall = NoCall
    /\ app = InitialApp
    /\ parseCall \in { [NoParse EXCEPT !.st = "called", !.text = chars] : chars \in ParseInputs }

\* Lines 27-57: the call returns a value.
ParseReturns ==
    /\ parseCall.st = "called"
    /\ parseJsonResponse(Scan(parseCall.text)).ok
    /\ parseCall' = [parseCall EXCEPT !.st = "returned",
                                     !.result = parseJsonResponse(Scan(parseCall.text))]
    /\ UNCHANGED <<pipelineVars, validateCall, app>>

\* Lines 59-61: the call throws.
ParseThrows ==
    /\ parseCall.st = "called"
    /\ ~parseJsonResponse(Scan(parseCall.text)).ok
    /\ parseCall' = [parseCall EXCEPT !.st = "thrown",
                                     !.result = parseJsonResponse(Scan(parseCall.text))]
    /\ UNCHANGED <<pipelineVars, validateCall, app>>

ParseNext == ParseReturns \/ ParseThrows

ParseSpec == ParseInit /\ [][ParseNext]_vars

\* ================================================================== claims
Settled == phase \in {"returned", "thrown"}
Progress(k) == progressUpdates[k].progress
FailedTasks == {k \in 1..Len(initialResults) : initialResults[k].type = "null"}
SucceededTasks ==
    {k \in 1..Len(initialResults) : initialResults[k].type \notin {"null", "pending"}}

\* C1: within one run every progress value passed to the callback is greater
\* than or equal to the value passed in the previous call, whatever the
\* interleaving of research tasks, timers and responses.
ProgressMonotonic ==
    \A k \in 1..(Len(progressUpdates) - 1) : Leq(Progress(k), Progress(k + 1))

\* C1 witness: a run over two or more companies returned after simulated
\* research updates were emitted between the 10 and the 90.
ProgressMonotonicWitness ==
    /\ phase = "returned"
    /\ Len(initialResults) >= 2
    /\ \E k \in 1..Len(progressUpdates) : progressUpdates[k].status = "Researching"
    /\ \E k \in 1..Len(progressUpdates) : progressUpdates[k].status = "Compiling"

\* C3: a run that returns never returns an empty sequence, and when every
\* per-company task of a non-empty company list failed the run throws the
\* "problem researching the businesses" error.
NeverEmptySuccess ==
    /\ outcome.kind = "returned" => Len(outcome.leads) > 0
    /\ (Len(initialResults) > 0 /\ FailedTasks = 1..Len(initialResults))
          => (phase = "thrown" /\ outcome = ThrownError(ResearchFailedError))

\* C3 witness: two companies were discovered and both tasks failed.
NeverEmptySuccessWitness ==
    /\ Len(initialResults) >= 2
    /\ FailedTasks = 1..Len(initialResults)
    /\ phase = "thrown"

\* C4: when the company-list response carries an empty list the run throws
\* the "no businesses found" error, no detail or validation request is ever
\* issued and no progress beyond the initial update is emitted.
EmptyListResponse ==
    /\ companyData.type = "object"
    /\ Get(companyData, "companyNames") = JArray(<<>>)

NoCandidatesFailsFast ==
    EmptyListResponse =>
        /\ phase = "thrown"
        /\ outcome = ThrownError(NoBusinessesError)
        /\ researchRequests = <<>>
        /\ validationRequests = <<>>
        /\ discoveryRequest.st = "resolved"
        /\ progressUpdates = <<Update("Scanning", Whole(InitialProgress))>>

\* C4 witness: the company-list response with an empty list has arrived.
NoCandidatesWitness == EmptyListResponse /\ phase = "thrown"

\* C2: with n discovered companies of which k research tasks fail and
\* n - k >= 1 succeed, the run returns exactly n - k leads; a failing task
\* contributes nothing and does not abort the run.
PartialFailureTolerated ==
    (Settled /\ Len(initialResults) >= 1 /\ ~AnyPending(initialResults)
        /\ SucceededTasks # {})
      => (outcome.kind = "returned" /\ Len(outcome.leads) = Cardinality(SucceededTasks))

\* C5: a run that throws throws an error carrying one of the messages
\* written for the user; no parser error, engine TypeError or client error
\* leaves generateLeads as it was raised.
ReadyToDisplay ==
    {AIServiceError, FailedToFindError, NoBusinessesError, ResearchFailedError}

NoRawException == outcome.kind = "thrown" => outcome.error \in ReadyToDisplay

\* C6: a validation that fails (its model call is rejected after the
\* retries, or its response cannot be parsed) settles with the input lead
\* unchanged and does not make the run throw, and a run that returns returns
\* as many leads as survived research.
Unparsable(text) == ~text.empty /\ text.fence.kind # "json" /\ text.brace.kind # "json"

ValidationFailureKeepsLead ==
    [][ /\ \A j \in 1..Len(validationRequests) :
              (validationRequests[j].st = "inflight" /\ validationRequests'[j].st = "rejected")
                 => /\ validatedLeads'[j] = successfulLeads[j]
                    /\ phase' = "thrown" => phase = "thrown"
        /\ \A j \in 1..Len(validationRequests) : \A text \in ValidationTexts :
              (Unparsable(text) /\ ValidationResponds(j, text))
                 => /\ validatedLeads'[j] = successfulLeads[j]
                    /\ phase' = "thrown" => phase = "thrown"
        /\ outcome'.kind = "returned"
              => /\ Len(outcome'.leads) = Len(successfulLeads')
                 /\ Len(outcome'.leads) = Cardinality(SucceededTasks')
                 /\ \A j \in 1..Len(outcome'.leads) : outcome'.leads[j].type = "object"
      ]_vars

\* C6 witness: a run returned although the model call of one of its
\* validations was rejected.
ValidationFailureWitness ==
    /\ phase = "returned"
    /\ \E j \in 1..Len(validationRequests) :
          /\ validationRequests[j].st = "rejected"
          /\ outcome.leads[j] = successfulLeads[j]

\* C8: the leads returned are in one-to-one correspondence with the company
\* list entries whose research task succeeded: the j-th lead returned is the
\* lead produced for the j-th such entry (its website possibly replaced by
\* the validator), so no entry contributes two leads and no lead is an orphan.
SucceededInOrder ==
    SelectSeq([k \in 1..Len(initialResults) |-> k],
              LAMBDA k : initialResults[k].type \notin {"null", "pending"})

ProducedBy(lead, k) ==
    /\ lead.type = "object"
    /\ lead.businessName = companyNames.items[k]
    /\ [lead EXCEPT !.officialWebsite = initialResults[k].officialWebsite] = initialResults[k]

FairSpec == Spec /\ WF_vars(Next)

Requests ==
    {discoveryRequest}
      \cup {researchRequests[k] : k \in 1..Len(researchRequests)}
      \cup {validationRequests[j] : j \in 1..Len(validationRequests)}

BoundedCalls ==
    /\ \A r \in Requests : r.calls <= DefaultRetries + 1 /\ r.retries >= 0
    /\ Len(researchRequests) =
          (IF phase \in {"idle", "discovering"} \/ companyNames.type # "array"
           THEN 0 ELSE Len(companyNames.items))
    /\ Len(validationRequests) <= Len(researchRequests)

RunTerminates == []BoundedCalls /\ <>Settled

\* C9 witness: a request that was invoked DefaultRetries + 1 times is still
\* in flight while another task of the run is backing off.
RunTerminatesWitness ==
    /\ phase = "researching"
    /\ \E k \in 1..Len(researchRequests) :
          researchRequests[k].st = "inflight" /\ researchRequests[k].calls = DefaultRetries + 1
    /\ \E k \in 1..Len(researchRequests) : researchRequests[k].st = "backoff"

\* C10: the wait before the N-th retry of a request is 2^(N-1) times the
\* initial delay, a request is invoked at most DefaultRetries + 1 times, and
\* a transient failure met with the budget used up is raised as the generic
\* service-unavailable error.
BackoffSchedule(r) ==
    /\ Len(r.waits) <= DefaultRetries
    /\ \A N \in 1..Len(r.waits) : r.waits[N] = 2 ^ (N - 1) * DefaultDelay
    /\ r.calls <= DefaultRetries + 1
    /\ r.st \in {"inflight", "backoff"} =>
          (r.calls = Len(r.waits) + (IF r.st = "backoff" THEN 0 ELSE 1))

ExponentialBackoff ==
    [][ /\ \A r \in Requests' : BackoffSchedule(r)
        /\ \A e \in ClientErrors :
              (isServerError(e) /\ discoveryRequest.retries = 0 /\ DiscoveryCallFails(e))
                 => /\ discoveryRequest'.st = "rejected"
                    /\ discoveryRequest'.err = AIServiceError
                    /\ outcome' = ThrownError(AIServiceError)
      ]_vars

\* C10 witness: the company-list request was rejected with the generic
\* error after waiting 1000, 2000 and 4000 ms and being invoked four times.
ExponentialBackoffWitness ==
    /\ discoveryRequest.st = "rejected"
    /\ discoveryRequest.waits = <<1000, 2000, 4000>>
    /\ discoveryRequest.calls = 4
    /\ outcome = ThrownError(AIServiceError)

\* C7: for a lead with a real website, a validation result that carries
\* "Not Found" in any letter case, an empty value or no corrected website
\* leaves the lead's website as it was.
Sentinels == {JString("Not Found"), JString("NOT FOUND"), JString("not found")}

RealWebsite(lead) ==
    /\ Get(lead, "officialWebsite").type = "string"
    /\ Get(lead, "officialWebsite") \notin Sentinels \cup {JString("")}

SentinelCorrection(text) ==
    LET parsed == parseJsonResponse(text) IN
    /\ parsed.ok
    /\ parsed.value.type = "object"
    /\ Get(parsed.value, "correctedWebsite") \in Sentinels \cup {JString(""), JUndefined}

SentinelNeverOverwrites ==
    (/\ validateCall.st = "resolved"
     /\ RealWebsite(validateCall.lead)
     /\ validateCall.reply.kind = "text"
     /\ SentinelCorrection(validateCall.reply.text))
      => Get(validateCall.result, "officialWebsite") = Get(validateCall.lead, "officialWebsite")

\* C7 witness: the model answered isCorrect false with "NOT FOUND" for a
\* lead that has a real website.
SentinelNeverOverwritesWitness ==
    /\ validateCall.st = "resolved"
    /\ RealWebsite(validateCall.lead)
    /\ validateCall.reply.kind = "text"
    /\ validateCall.reply.text =
          Text(Json(ValidationObject(JBool(FALSE), JString("NOT FOUND"))), NoMatch)

\* C11: when a response says that the request or the output was blocked by
\* content policy, a distinguished ServiceRefusal error carrying the refusal
\* message is raised and reaches the caller of generateLeads, and the request
\* is neither invoked again nor followed by a backoff wait.
ServiceRefusal(reason) ==
    [name |-> "ServiceRefusal", message |-> reason, status |-> "", code |-> 0]

RefusalShortCircuit ==
    [][ \A text \in DiscoveryTexts :
           (Blocked(text) /\ DiscoveryResponds(text))
              => /\ discoveryRequest'.calls = discoveryRequest.calls
                 /\ discoveryRequest'.waits = discoveryRequest.waits
                 /\ discoveryRequest'.st \notin {"inflight", "backoff"}
                 /\ outcome' = ThrownError(ServiceRefusal(text.blockReason))
      ]_vars

\* C12: when the response to the company-list request or to a detail request
\* is the literal text {}, the value is not taken as the result: the same
\* request is issued again.  (The program keeps no count of such attempts,
\* so every response it receives is the first of its logical request.)
EmptyObjectLiteral == Text(NoMatch, Json(JEmptyObject))

EmptyObjectRejected ==
    [][ /\ DiscoveryResponds(EmptyObjectLiteral)
              => /\ phase' = "discovering"
                 /\ discoveryRequest'.st \in {"inflight", "backoff"}
        /\ \A k \in 1..Len(researchRequests) :
              ResearchResponds(k, EmptyObjectLiteral)
                 => /\ initialResults'[k] = Pending
                    /\ researchRequests'[k].st \in {"inflight", "backoff"}
      ]_vars

\* C13: the lead validateLead returns equals its input lead in every field
\* other than the website and contact fields, for every input lead and every
\* reply to the validation request.
WebsiteContactFields == {"officialWebsite", "contactEmail", "contactPhone"}

ValidatorFrame ==
    validateCall.st = "resolved" =>
        /\ validateCall.result.type = "object"
        /\ DOMAIN validateCall.result = DOMAIN validateCall.lead
        /\ \A f \in DOMAIN validateCall.lead \ WebsiteContactFields :
              validateCall.result[f] = validateCall.lead[f]

\* C13 witness: validateLead returned a lead whose website it replaced.
ValidatorFrameWitness ==
    /\ validateCall.st = "resolved"
    /\ validateCall.reply.kind = "text"
    /\ validateCall.result # validateCall.lead
    /\ validateCall.result.officialWebsite = JString("https://b.com")

\* C14: the exclusion list passed to a run contains the business name of
\* every lead that an earlier run returned and auto-saved, unless clear-all
\* was invoked since, and the list does not change within a run.
ExclusionGrows ==
    app.pc # "idle" => app.returnedNames \subseteq app.excludedBusinesses

\* C15: at most one audit POST is sent per run, a POST that settled is not
\* sent again, and the settling of a POST (an OK response, a response that is
\* not OK or a network error) changes neither the error shown, nor the leads
\* displayed, nor the loading state.
AuditFireAndForget ==
    [][ /\ app'.posts <= 1
        /\ app'.auditPending < app.auditPending
              => /\ app'.auditPending = app.auditPending - 1
                 /\ app'.posts = app.posts
                 /\ app'.error = app.error
                 /\ app'.leads = app.leads
                 /\ app'.isLoading = app.isLoading
                 /\ app'.pc = app.pc
      ]_vars

\* C15 witness: the audit POST of a run failed while the next run was
\* loading, and that run then displayed its leads without an error.
AuditFireAndForgetWitness ==
    /\ app.auditLog = "Failed to write to audit log sheet"
    /\ app.auditPending = 1
    /\ app.runs = 2
    /\ app.pc = "idle"
    /\ app.error = "null"
    /\ Len(app.leads) > 0

\* C16: a permanent failure of a model call rejects the request in the same
\* step with the error as it was raised: no backoff wait is added and the
\* request is never invoked again, whatever budget remains, also when the
\* failure follows earlier transient failures of the same request.
PermanentErrors == {e \in ClientErrors : e.status = "INVALID_ARGUMENT"}

PermanentFailsFast ==
    [][ /\ \A e \in PermanentErrors :
              DiscoveryCallFails(e)
                 => /\ discoveryRequest'.st = "rejected"
                    /\ discoveryRequest'.err = e
                    /\ discoveryRequest'.waits = discoveryRequest.waits
                    /\ discoveryRequest'.calls = discoveryRequest.calls
        /\ \A k \in 1..Len(researchRequests) : \A e \in PermanentErrors :
              ResearchCallFails(k, e)
                 => /\ researchRequests'[k].st = "rejected"
                    /\ initialResults'[k] = JNull
        /\ \A j \in 1..Len(validationRequests) : \A e \in PermanentErrors :
              ValidationCallFails(j, e)
                 => /\ validationRequests'[j].st = "rejected"
                    /\ validatedLeads'[j] = successfulLeads[j]
        /\ \A r \in Requests : r.st = "rejected" => r \in Requests'
      ]_vars

\* C16 witness: the company-list request was rejected with a permanent
\* error on its first retry, two retries of its budget remaining.
PermanentFailsFastWitness ==
    /\ discoveryRequest.st = "rejected"
    /\ discoveryRequest.err \in PermanentErrors
    /\ discoveryRequest.waits = <<DefaultDelay>>
    /\ discoveryRequest.calls = 2
    /\ discoveryRequest.retries = DefaultRetries - 1

\* C17: when a response is empty or cannot be parsed, the same logical
\* request is attempted again while attempts of the outer budget remain; the
\* caller sees an error only after that budget is used up.  (The program
\* keeps no outer budget, so every response is that of a first attempt.)
ParserFailure(text) == text.empty \/ Unparsable(text)

ParserFailureRetried ==
    [][ /\ \A text \in DiscoveryTexts :
              (ParserFailure(text) /\ DiscoveryResponds(text))
                 => /\ phase' = "discovering"
                    /\ outcome' = NoOutcome
                    /\ discoveryRequest'.st \in {"inflight", "backoff"}
        /\ \A k \in 1..Len(researchRequests) :
              \A text \in ResearchTexts(companyNames.items[k].str) :
                 (ParserFailure(text) /\ ResearchResponds(k, text))
                    => /\ initialResults'[k] = Pending
                       /\ researchRequests'[k].st \in {"inflight", "backoff"}
      ]_vars

\* C18: a parsed company-list response whose companyNames field is missing
\* or is not an array is a failed attempt: no detail request is issued for
\* it and its value is never used as a company list, neither to report the
\* businesses found nor to drive the research progress.
ShapeMismatch ==
    /\ companyData.type = "object"
    /\ Get(companyData, "companyNames").type # "array"

DiscoveryShapeChecked ==
    ShapeMismatch =>
        /\ researchRequests = <<>>
        /\ simTimeout = "none"
        /\ simIndex = 0
        /\ \A k \in 1..Len(progressUpdates) :
              progressUpdates[k].status \notin {"Found", "Researching"}

\* C19 as stated: validateLead skips (no model request, input returned
\* unchanged) when the website is absent or the sentinel, and issues a
\* validation request for every other lead.
EntryDone == validateCall.st \notin {"none", "called"}
NoWebsite(lead) ==
    \/ ~Truthy(Get(lead, "officialWebsite"))
    \/ Get(lead, "officialWebsite") \in Sentinels
ListsContact(lead) ==
    \E f \in {"contactEmail", "contactPhone"} :
       Get(lead, f).type = "array" /\ Len(Get(lead, f).items) > 0
Skipped ==
    /\ validateCall.st = "resolved"
    /\ validateCall.request = NoRequest
    /\ validateCall.result = validateCall.lead
RequestIssued == validateCall.request.calls >= 1

ResearchOutstanding == \E k \in 1..Len(initialResults) : initialResults[k].type = "pending"
IssuedValidations == {j \in 1..Len(validationRequests) : validationRequests[j].st # "none"}

ValidatesImmediately ==
    [][ \A k \in 1..Len(researchRequests) :
           \A text \in ResearchTexts(companyNames.items[k].str) :
              (/\ ResearchResponds(k, text)
               /\ researchResult(text).type = "object"
               /\ validateLeadEntry(researchResult(text)) = "validate")
                 => \E j \in 1..Len(validationRequests') : validationRequests'[j].st = "inflight"
      ]_vars

\* C20 as amended: validation starts only after the research of every
\* company has settled: no validation request exists while a research
\* request of the run is outstanding, and in the step in which the last
\* research task settles the validation requests of all surviving leads that
\* pass the entry check of validateLead are issued together.
ValidatesAfterJoin ==
    [][ /\ IssuedValidations' # {} => ~ResearchOutstanding'
        /\ (ResearchOutstanding /\ ~ResearchOutstanding' /\ phase' \in {"validating", "pausing"})
              => /\ Len(validationRequests') = Len(successfulLeads')
                 /\ \A j \in 1..Len(successfulLeads') :
                       (/\ RealWebsite(successfulLeads'[j])
                        /\ ListsContact(successfulLeads'[j]))
                          => validationRequests'[j] = NewRequest
      ]_vars

\* C20 witness: the last of two research tasks has settled and the
\* validation requests of both leads are in flight, neither yet answered.
ValidatesAfterJoinWitness ==
    /\ phase = "validating"
    /\ Len(initialResults) >= 2
    /\ Len(validationRequests) >= 2
    /\ \A j \in 1..Len(validationRequests) : validationRequests[j] = NewRequest

\* C21: research progress is driven by task events: the step in which a
\* per-company task completes emits a progress update, and after k of the n
\* tasks of a run have completed the progress last reported is at least
\* 10 + k * (75 / n).
CompletedTasks == {k \in 1..Len(initialResults) : initialResults[k].type # "pending"}

ProgressTracksTasks ==
    [][ CompletedTasks' # CompletedTasks
           => /\ Len(progressUpdates') > Len(progressUpdates)
              /\ LET n == Len(initialResults')
                     done == Cardinality(CompletedTasks')
                 IN Leq([num |-> FoundProgress * n + done * ResearchBand, den |-> n],
                        progressUpdates'[Len(progressUpdates')].progress)
      ]_vars

\* C22: research is joined, not raced: the filtered leads, the all-failed
\* error, the 90 and 100 progress updates, the validation stage and the
\* return of the run exist only when every per-company research task has
\* settled, its request neither in flight nor backing off.
PastJoin ==
    \/ phase \in {"validating", "pausing", "returned"}
    \/ outcome = ThrownError(ResearchFailedError)
    \/ successfulLeads # <<>>
    \/ \E u \in 1..Len(progressUpdates) : progressUpdates[u].status \in {"Verifying", "Compiling"}

JoinedNotRaced ==
    PastJoin => /\ ~ResearchOutstanding
                /\ InFlight(researchRequests) = {}
                /\ BackingOff(researchRequests) = {}
                /\ Len(initialResults) = LengthOf(companyNames)

\* C22 witness: of two research tasks the first failed and the second
\* succeeded, and the run returned the one lead after both had settled.
JoinedNotRacedWitness ==
    /\ phase = "returned"
    /\ Len(initialResults) = 2
    /\ initialResults[1] = JNull
    /\ researchRequests[2].st = "resolved"
    /\ Len(outcome.leads) = 1

\* C23: for any text that contains a fenced code block, tagged json or
\* untagged, whose contents are valid JSON, parseJsonResponse returns the value
\* of that JSON, whatever prose, braces or other fenced blocks surround it.
\* The fenced blocks of a text are read as Markdown reads them: the first
\* marker opens a block, the second closes it, the third opens the next.
Markers(chars) == {i \in 1..Len(chars) : chars[i] = Fence}

FencedBlocks(chars) ==
    LET marks == Markers(chars)
        rank(i) == Cardinality({h \in marks : h <= i})
        content(i, j) == IF i + 1 < j /\ chars[i + 1] = Tag
                         THEN SubSeq(chars, i + 2, j - 1)
                         ELSE SubSeq(chars, i + 1, j - 1)
    IN { content(i, j) : <<i, j>> \in { p \in marks \X marks :
                                          rank(p[1]) % 2 = 1 /\ rank(p[2]) = rank(p[1]) + 1 } }

FencedJson(chars) ==
    { JSONparse(block).value : block \in { b \in FencedBlocks(chars) : JSONparse(b).kind = "json" } }

ParseDone == parseCall.st \in {"returned", "thrown"}

FenceRule ==
    (ParseDone /\ FencedJson(parseCall.text) # {})
       => /\ parseCall.st = "returned"
          /\ parseCall.result.value \in FencedJson(parseCall.text)

\* C24: when the text has no fenced block, or its fenced block does not
\* parse, parseJsonResponse returns the JSON value of the substring from the
\* first "{" to the last "}" of the whole text when that substring is valid
\* JSON, whatever prose leads and trails it; and when the fenced block parses,
\* its value is returned whatever the brace span holds.
FirstBlockJson(chars) ==
    LET marks == Markers(chars) IN
    IF Cardinality(marks) < 2 THEN NoMatch
    ELSE LET i == CHOOSE m \in marks : \A h \in marks : m <= h
             rest == marks \ {i}
             j == CHOOSE m \in rest : \A h \in rest : m <= h
             from == IF i + 1 < j /\ chars[i + 1] = Tag THEN i + 2 ELSE i + 1
         IN JSONparse(SubSeq(chars, from, j - 1))

SpanJson(chars) ==
    LET opens == {i \in 1..Len(chars) : chars[i] = "{"}
        closes == {i \in 1..Len(chars) : chars[i] = "}"}
    IN
    IF opens = {} \/ closes = {} THEN NoMatch
    ELSE LET i == CHOOSE m \in opens : \A h \in opens : m <= h
             j == CHOOSE m \in closes : \A h \in closes : m >= h
         IN IF j < i THEN NoMatch ELSE JSONparse(SubSeq(chars, i, j))

BraceFallback ==
    (ParseDone /\ parseCall.text # <<>>)
       => LET first == FirstBlockJson(parseCall.text)
              span == SpanJson(parseCall.text)
          IN /\ first.kind = "json" => parseCall.result = Returned(first.value)
             /\ (first.kind # "json" /\ span.kind = "json")
                   => parseCall.result = Returned(span.value)

\* C24 witness: a text whose fenced block holds prose and does not parse,
\* and whose brace span after the block is valid JSON, which was returned.
BraceFallbackWitness ==
    /\ parseCall.st = "returned"
    /\ FirstBlockJson(parseCall.text) = Invalid
    /\ \E i \in 1..Len(parseCall.text) : parseCall.text[i] = "x"
    /\ SpanJson(parseCall.text).kind = "json"
    /\ parseCall.result = Returned(SpanJson(parseCall.text).value)

\* C25: for a non-empty text with no parsable JSON content (no fenced block
\* that parses and no span from the first "{" to the last "}" that parses),
\* parseJsonResponse throws, never returns a value, and the error thrown
\* carries the original text.
NoJsonContent(chars) ==
    chars # <<>> /\ FencedJson(chars) = {} /\ SpanJson(chars).kind # "json"

UnparsableCarriesText ==
    (ParseDone /\ NoJsonContent(parseCall.text))
       => /\ parseCall.st = "thrown"
          /\ ~parseCall.result.ok
          /\ "text" \in DOMAIN parseCall.result.error
          /\ parseCall.result.error.text = parseCall.text

\* C26: given an empty or absent text, parseJsonResponse fails with an
\* empty-response error and returns no value, in particular not an empty
\* object.
EmptyTextFails ==
    (ParseDone /\ parseCall.text = <<>>)
       => /\ parseCall.st = "thrown"
          /\ ~parseCall.result.ok

\* C27: progress 100 marks success only: it is emitted once in a run that
\* returns, as the last update of the run and after every validation has
\* settled; a run that throws never emits it; and every progress value
\* emitted lies between 0 and 100.
Hundreds == {k \in 1..Len(progressUpdates) : Progress(k).num = FinalProgress * Progress(k).den}

HundredMarksSuccess ==
    /\ \A k \in 1..Len(progressUpdates) :
          Leq(Whole(0), Progress(k)) /\ Leq(Progress(k), Whole(FinalProgress))
    /\ outcome.kind = "returned" => Hundreds = {Len(progressUpdates)}
    /\ phase = "thrown" => Hundreds = {}
    /\ Hundreds # {}
          => /\ Hundreds = {Len(progressUpdates)}
             /\ phase \in {"pausing", "returned"}
             /\ ~AnyPending(validatedLeads)
             /\ InFlight(validationRequests) = {}
             /\ BackingOff(validationRequests) = {}

\* C27 witness: a run returned two leads after a request was made for the
\* validation of each, and its last update is the only one with 100.
HundredMarksSuccessWitness ==
    /\ phase = "returned"
    /\ Len(validationRequests) = 2
    /\ \A j \in 1..2 : validationRequests[j].st \in {"resolved", "rejected"}
    /\ Hundreds = {Len(progressUpdates)}
    /\ Len(outcome.leads) = 2

\* C28: no progress update outlives its run: once generateLeads has returned
\* or thrown the progress callback is not invoked again, and no simulated
\* "Researching" update follows the "Verifying" update of the join.
NoUpdateOutlivesRun ==
    [][ /\ Settled => progressUpdates' = progressUpdates
        /\ \A u \in 1..Len(progressUpdates') : \A v \in (u + 1)..Len(progressUpdates') :
              progressUpdates'[u].status = "Verifying"
                 => progressUpdates'[v].status # "Researching"
      ]_vars

\* C29: validateLead returns a lead other than the one it was given only when
\* the validation response says isCorrect is the boolean false and supplies a
\* correctedWebsite that is a non-empty string other than the sentinel, and
\* the lead returned is then the given lead with that website; when isCorrect
\* is true, missing or not a boolean, the lead is returned unchanged whatever
\* correctedWebsite holds.
ReplyData ==
    IF validateCall.reply.kind = "text" /\ parseJsonResponse(validateCall.reply.text).ok
    THEN parseJsonResponse(validateCall.reply.text).value
    ELSE JUndefined

CorrectsOnlyOnFalse ==
    validateCall.st = "resolved" =>
        LET isCorrect == Get(ReplyData, "isCorrect")
            corrected == Get(ReplyData, "correctedWebsite")
        IN /\ validateCall.result # validateCall.lead
                 => /\ isCorrect = JBool(FALSE)
                    /\ corrected.type = "string"
                    /\ corrected \notin Sentinels \cup {JString("")}
                    /\ validateCall.result =
                          [validateCall.lead EXCEPT !.officialWebsite = corrected]
           /\ isCorrect # JBool(FALSE) => validateCall.result = validateCall.lead

\* C29 witness: the response had no isCorrect and a correctedWebsite other
\* than the website of the lead, and the lead was returned unchanged.
CorrectsOnlyOnFalseWitness ==
    /\ validateCall.st = "resolved"
    /\ validateCall.reply.kind = "text"
    /\ validateCall.reply.text =
          Text(Json(ValidationObject(JUndefined, JString("https://b.com"))), NoMatch)
    /\ validateCall.lead.officialWebsite = JString("https://a.com")
    /\ validateCall.result = validateCall.lead

\* C30: after handleGenerateLeads has finished, on success and on every
\* failure path, isLoading is false, generationStatus is empty and
\* generationProgress is 0; the error and the leads displayed exclude each
\* other (a failed run shows an error and no leads, a successful run shows its
\* leads and no error); and a failure while auto-saving never sets the error.
RunFinished == app.pc = "idle" /\ app.runs > 0

UiRunState ==
    RunFinished =>
        /\ ~app.isLoading
        /\ app.generationStatus = ""
        /\ app.generationProgress = 0
        /\ (app.error = "null") # (app.leads = <<>>)
        /\ app.saveFailed => app.error = "null"

====
